---- MODULE Spec2Model ----
(***************************************************************************)
(* Type analysis pass of the cminusminus compiler (src/type_analysis.cpp). *)
(*                                                                         *)
(* The pass is a recursive walk over a name-resolved AST.  Every node kind *)
(* has a typeAnalysis handler that analyses its children, reads their      *)
(* recorded types from the TypeAnalysis object, reports diagnostics and    *)
(* records the node's own type.  Handlers are modelled by operators of the *)
(* form H(n, p, ta) that return the TypeAnalysis object after the handler  *)
(* ran on node n; p is the identity of the node (its path from the root),  *)
(* which stands for the node's address (the key of the node-to-type map)   *)
(* and for its source position.                                            *)
(***************************************************************************)
EXTENDS Integers, Sequences, FiniteSets, TLC

\* Largest expression tree (in nodes) drawn as input of one expression analysis.
MaxNodes == 4

\* Largest number of statements, nested ones included, of an analysed program.
MaxStmts == 2

VARIABLES
  ast,       \* the expression or statement whose handler ran last
  path,      \* its identity
  ta,        \* the TypeAnalysis object
  pre,       \* the TypeAnalysis object before that handler ran
  pc,        \* where the pass is
  sym,       \* the function whose declaration is being analysed
  fn,        \* functionType, the local variable of FnDeclNode::typeAnalysis
  declared,  \* the globals analysed so far, in order
  nStmts     \* the statements analysed so far

vars == <<ast, path, ta, pre, pc, sym, fn, declared, nStmts>>

(***************************************************************************)
(* DataType: BasicType (interned per kind), ErrorType (a singleton) and    *)
(* FnType (one object per allocation).  The code compares types by         *)
(* pointer; a record carries the identity of its object in `id`, so that   *)
(* record equality is pointer equality.                                    *)
(***************************************************************************)
BasicType(k) == [kind |-> k, id |-> <<>>, formals |-> <<>>, ret |-> "NONE"]

ErrorType == [kind |-> "ERROR", id |-> <<>>, formals |-> <<>>, ret |-> "NONE"]

FnType(i, fs, r) == [kind |-> "FN", id |-> i, formals |-> fs, ret |-> r]

\* The null pointer: no type.
NoType == [kind |-> "NULL", id |-> <<>>, formals |-> <<>>, ret |-> "NONE"]

isInt(t) == t.kind = "INT"

isBool(t) == t.kind = "BOOL"

isString(t) == t.kind = "STRING"

isVoid(t) == t.kind = "VOID"

asFn(t) == t.kind = "FN"

asError(t) == t.kind = "ERROR"

validVarType(t) == t.kind \in {"INT", "SHORT", "BOOL", "STRING"}

getReturnType(t) == BasicType(t.ret)

(***************************************************************************)
(* The TypeAnalysis object: the node-to-type map, the error flag, the      *)
(* reported diagnostics, the current function slot, and the internal       *)
(* error that stopped the pass, if any ("none" while it runs).  Once the   *)
(* pass is stopped nothing is recorded or reported any more.               *)
(***************************************************************************)
NewTypeAnalysis ==
  [nodeToType |-> [q \in {} |-> NoType],
   hasError |-> FALSE,
   diags |-> <<>>,
   currentFnType |-> NoType,
   fault |-> "none"]

\* ta->nodeType(node, type)
nodeTypeSet(t, p, ty) ==
  IF t.fault # "none" THEN t
  ELSE IF p \in DOMAIN t.nodeToType THEN [t EXCEPT !.fault = "rebind"]
  ELSE [t EXCEPT !.nodeToType = (p :> ty) @@ @]

\* ta->nodeType(node): the object after the read, which stops the pass when
\* the node has no type.
nodeTypeRead(t, p) ==
  IF t.fault = "none" /\ p \notin DOMAIN t.nodeToType
  THEN [t EXCEPT !.fault = "unbound"]
  ELSE t

\* ta->nodeType(node): the value read.
nodeType(t, p) ==
  IF p \in DOMAIN t.nodeToType THEN t.nodeToType[p] ELSE NoType

report(t, k, pos) ==
  IF t.fault # "none" THEN t
  ELSE [t EXCEPT !.diags = Append(@, [kind |-> k, pos |-> pos]),
                 !.hasError = TRUE]

errMathOpd(t, pos) == report(t, "MathOperandMismatch", pos)

errEqOpr(t, pos) == report(t, "EqualityOperandMismatch", pos)

errRelOpd(t, pos) == report(t, "RelationalOperandMismatch", pos)

errIfCond(t, pos) == report(t, "InvalidCondition", pos)

errAssignOpr(t, pos) == report(t, "AssignmentMismatch", pos)

setCurrentFnType(t, ty) ==
  IF t.fault # "none" THEN t ELSE [t EXCEPT !.currentFnType = ty]

\* ta->getCurrentFnType()->getReturnType(): the slot is dereferenced.
getCurrentFnType(t) == t.currentFnType

(***************************************************************************)
(* The AST.  Every node is a record of one shape: its kind, the symbol of  *)
(* an identifier, its child expressions, and the statement lists of a      *)
(* control statement.                                                      *)
(***************************************************************************)
Node(k, s, ks, b, e) == [kind |-> k, sym |-> s, kids |-> ks, body |-> b, els |-> e]

Lit(k) == Node(k, "", <<>>, <<>>, <<>>)

ID(s) == Node("ID", s, <<>>, <<>>, <<>>)

Un(k, e) == Node(k, "", <<e>>, <<>>, <<>>)

Bin(k, l, r) == Node(k, "", <<l, r>>, <<>>, <<>>)

\* kids[1] is myID, the rest is myArgs.
Call(s, args) == Node("CallExp", "", <<ID(s)>> \o args, <<>>, <<>>)

\* The symbols name analysis resolved: an int variable, void f() and
\* int g(int, int).  A function symbol owns one FnType object.
Symbols == {"a", "f", "g"}

getDataType(s) ==
  CASE s = "a" -> BasicType("INT")
    [] s = "f" -> FnType(<<-1>>, <<>>, "VOID")
    [] s = "g" -> FnType(<<-2>>, <<"INT", "INT">>, "INT")

LitKinds == {"IntLit", "ShortLit", "StrLit", "True", "False"}

ArithKinds == {"Plus", "Minus", "Divide", "Times"}

LogicKinds == {"And", "Or"}

EqKinds == {"Equals", "NotEquals"}

RelKinds == {"Less", "LessEq", "Greater", "GreaterEq"}

BinaryKinds == ArithKinds \cup LogicKinds \cup EqKinds \cup RelKinds

UnaryKinds == {"Neg", "Not"}

\* Ref and Deref nodes hold an identifier.
AddrKinds == {"Ref", "Deref"}

Leaves == {Lit(k) : k \in LitKinds} \cup {ID(s) : s \in Symbols}

\* The destination of an assignment is an l-value.
LVals == {ID(s) : s \in Symbols}

RECURSIVE ExpOfSize(_)
RECURSIVE ArgLists(_)
\* The expression trees of exactly n nodes.
ExpOfSize(n) ==
  IF n < 1 THEN {}
  ELSE IF n = 1 THEN Leaves
  ELSE {Un(k, e) : k \in UnaryKinds, e \in ExpOfSize(n - 1)}
       \cup (IF n = 2 THEN {Un(k, ID(s)) : k \in AddrKinds, s \in Symbols} ELSE {})
       \cup UNION {{Bin(k, l, r) : k \in BinaryKinds, l \in ExpOfSize(i),
                                   r \in ExpOfSize(n - 1 - i)} : i \in 1..(n - 2)}
       \cup {Bin("AssignExp", l, r) : l \in LVals, r \in ExpOfSize(n - 2)}
       \cup {Call(s, args) : s \in Symbols, args \in ArgLists(n - 2)}

\* The argument lists of m nodes in all.
ArgLists(m) ==
  IF m = 0 THEN {<<>>}
  ELSE UNION {{<<e>> \o rest : e \in ExpOfSize(i), rest \in ArgLists(m - i)} : i \in 1..m}

(***************************************************************************)
(* The handlers.                                                           *)
(***************************************************************************)
RECURSIVE typeAnalysis(_, _, _)
RECURSIVE AnalyseArgs(_, _, _, _)
RECURSIVE AnalyseList(_, _, _, _, _)

IntLitNode_typeAnalysis(n, p, t) == nodeTypeSet(t, p, BasicType("INT"))

ShortLitNode_typeAnalysis(n, p, t) == nodeTypeSet(t, p, BasicType("SHORT"))

StrLitNode_typeAnalysis(n, p, t) == nodeTypeSet(t, p, BasicType("STRING"))

TrueNode_typeAnalysis(n, p, t) == nodeTypeSet(t, p, BasicType("BOOL"))

FalseNode_typeAnalysis(n, p, t) == nodeTypeSet(t, p, BasicType("BOOL"))

IDNode_typeAnalysis(n, p, t) == nodeTypeSet(t, p, getDataType(n.sym))

\* Both operands analysed and both types read.
Operands(n, p, t) ==
  LET t1 == typeAnalysis(n.kids[1], Append(p, 1), t)
      t2 == typeAnalysis(n.kids[2], Append(p, 2), t1)
  IN  nodeTypeRead(nodeTypeRead(t2, Append(p, 1)), Append(p, 2))

PlusNode_typeAnalysis(n, p, t) ==
  LET t3 == Operands(n, p, t)
      exp1 == nodeType(t3, Append(p, 1))
      exp2 == nodeType(t3, Append(p, 2))
  IN  IF exp1 # exp2 \/ ~isInt(exp1)
      THEN nodeTypeSet(errMathOpd(t3, Append(p, 2)), p, ErrorType)
      ELSE nodeTypeSet(t3, p, exp1)

MinusNode_typeAnalysis(n, p, t) ==
  LET t3 == Operands(n, p, t)
      exp1 == nodeType(t3, Append(p, 1))
      exp2 == nodeType(t3, Append(p, 2))
  IN  IF exp1 # exp2 \/ ~isInt(exp1)
      THEN nodeTypeSet(errMathOpd(t3, Append(p, 2)), p, ErrorType)
      ELSE nodeTypeSet(t3, p, exp1)

DivideNode_typeAnalysis(n, p, t) ==
  LET t3 == Operands(n, p, t)
      exp1 == nodeType(t3, Append(p, 1))
      exp2 == nodeType(t3, Append(p, 2))
  IN  IF exp1 # exp2 \/ ~isInt(exp1)
      THEN nodeTypeSet(errMathOpd(t3, Append(p, 2)), p, ErrorType)
      ELSE nodeTypeSet(t3, p, exp1)

\* A multiplication that compares its operands and does not ask for INT.
TimesNode_noIntCheck(n, p, t) ==
  LET t3 == Operands(n, p, t)
      exp1 == nodeType(t3, Append(p, 1))
      exp2 == nodeType(t3, Append(p, 2))
  IN  IF exp1 # exp2
      THEN nodeTypeSet(errMathOpd(t3, Append(p, 2)), p, ErrorType)
      ELSE nodeTypeSet(t3, p, exp1)

TimesNode_typeAnalysis(n, p, t) ==
  LET t3 == Operands(n, p, t)
      exp1 == nodeType(t3, Append(p, 1))
      exp2 == nodeType(t3, Append(p, 2))
  IN  IF exp1 # exp2 \/ ~isInt(exp1)
      THEN nodeTypeSet(errMathOpd(t3, Append(p, 2)), p, ErrorType)
      ELSE nodeTypeSet(t3, p, exp1)

\* AndNode and OrNode have the same body.
LogicNode_typeAnalysis(n, p, t) ==
  LET t3 == Operands(n, p, t)
      exp1 == nodeType(t3, Append(p, 1))
      exp2 == nodeType(t3, Append(p, 2))
  IN  IF exp1 # exp2 \/ ~isBool(exp1)
      THEN nodeTypeSet(errMathOpd(t3, Append(p, 2)), p, ErrorType)
      ELSE nodeTypeSet(t3, p, BasicType("BOOL"))

\* EqualsNode and NotEqualsNode have the same body.
EqNode_typeAnalysis(n, p, t) ==
  LET t3 == Operands(n, p, t)
      exp1 == nodeType(t3, Append(p, 1))
      exp2 == nodeType(t3, Append(p, 2))
  IN  IF exp1 # exp2
      THEN nodeTypeSet(errEqOpr(t3, Append(p, 2)), p, ErrorType)
      ELSE nodeTypeSet(t3, p, BasicType("BOOL"))

\* LessNode, LessEqNode, GreaterNode and GreaterEqNode have the same body.
RelNode_typeAnalysis(n, p, t) ==
  LET t3 == Operands(n, p, t)
      exp1 == nodeType(t3, Append(p, 1))
      exp2 == nodeType(t3, Append(p, 2))
  IN  IF exp1 # exp2 \/ isString(exp1) \/ isVoid(exp1)
      THEN nodeTypeSet(errRelOpd(t3, Append(p, 2)), p, ErrorType)
      ELSE nodeTypeSet(t3, p, BasicType("BOOL"))

\* RefNode, DerefNode, NegNode and NotNode analyse their operand and record
\* nothing.
UnaryNode_typeAnalysis(n, p, t) == typeAnalysis(n.kids[1], Append(p, 1), t)

AssignExpNode_typeAnalysis(n, p, t) ==
  LET t3 == Operands(n, p, t)
      tgtType == nodeType(t3, Append(p, 1))
      srcType == nodeType(t3, Append(p, 2))
  IN  IF tgtType = srcType
      THEN nodeTypeSet(t3, p, tgtType)
      ELSE nodeTypeSet(errAssignOpr(t3, p), p, ErrorType)

\* The loop over myArgs: argument j is kids[j + 1], analysed and read.
AnalyseArgs(n, p, j, t) ==
  IF j > Len(n.kids) - 1 THEN t
  ELSE LET t1 == typeAnalysis(n.kids[j + 1], Append(p, j), t)
       IN  AnalyseArgs(n, p, j + 1, nodeTypeRead(t1, Append(p, j)))

\* myID is child 0.  The comparison of the argument types with the formal
\* types only prints; whatever its outcome the node is recorded as Error.
CallExpNode_typeAnalysis(n, p, t) ==
  LET t1 == typeAnalysis(n.kids[1], Append(p, 0), t)
      t2 == nodeTypeRead(t1, Append(p, 0))
      subType == nodeType(t2, Append(p, 0))
  IN  IF ~asFn(subType)
      THEN nodeTypeSet(t2, p, ErrorType)
      ELSE nodeTypeSet(AnalyseArgs(n, p, 1, t2), p, ErrorType)

(***************************************************************************)
(* Statements.  Child 1 of a statement is its expression; the condition of *)
(* a control statement is child 0, the statements of its body are children *)
(* <<1, j>> and those of its else branch children <<2, j>>.                *)
(***************************************************************************)
\* A loop `for (auto stmt : *list) stmt->typeAnalysis(ta)` from statement j on.
AnalyseList(list, p, b, j, t) ==
  IF j > Len(list) THEN t
  ELSE AnalyseList(list, p, b, j + 1, typeAnalysis(list[j], p \o <<b, j>>, t))

VarDeclNode_typeAnalysis(n, p, t) == nodeTypeSet(t, p, BasicType("VOID"))

AssignStmtNode_typeAnalysis(n, p, t) ==
  LET t1 == typeAnalysis(n.kids[1], Append(p, 1), t)
      t2 == nodeTypeRead(t1, Append(p, 1))
      subType == nodeType(t2, Append(p, 1))
  IN  IF asError(subType)
      THEN nodeTypeSet(t2, p, subType)
      ELSE nodeTypeSet(t2, p, BasicType("VOID"))

CallStmtNode_typeAnalysis(n, p, t) ==
  nodeTypeSet(typeAnalysis(n.kids[1], Append(p, 1), t), p, ErrorType)

\* The current function slot is dereferenced: with an empty slot the pass
\* cannot go on.
currentReturnType(t) ==
  IF asFn(getCurrentFnType(t)) THEN getReturnType(getCurrentFnType(t)) ELSE NoType

derefCurrentFnType(t) ==
  IF t.fault = "none" /\ ~asFn(getCurrentFnType(t))
  THEN [t EXCEPT !.fault = "nullfn"]
  ELSE t

\* With an expression the handler only tells a void function from the
\* others; the messages go to standard output, nothing is reported.
ReturnStmtNode_typeAnalysis(n, p, t) ==
  IF Len(n.kids) > 0
  THEN LET t1 == typeAnalysis(n.kids[1], Append(p, 1), t)
           t2 == derefCurrentFnType(nodeTypeRead(t1, Append(p, 1)))
           subType == nodeType(t2, Append(p, 1))
       IN  IF validVarType(currentReturnType(t2))
           THEN nodeTypeSet(t2, p, subType)
           ELSE nodeTypeSet(t2, p, ErrorType)
  ELSE LET t2 == derefCurrentFnType(t)
       IN  IF validVarType(currentReturnType(t2))
           THEN nodeTypeSet(t2, p, ErrorType)
           ELSE nodeTypeSet(t2, p, BasicType("VOID"))

\* The condition check the three control statements end with: the node is
\* recorded as VOID when the condition is BOOL, and as Error in any case.
CondCheck(p, t) ==
  LET t1 == nodeTypeRead(t, Append(p, 0))
      condition == nodeType(t1, Append(p, 0))
      t2 == IF ~isBool(condition)
            THEN errIfCond(t1, Append(p, 0))
            ELSE nodeTypeSet(t1, p, BasicType("VOID"))
  IN  nodeTypeSet(t2, p, ErrorType)

\* An if statement that analyses its body only under a BOOL condition.
IfStmtNode_bodyIfBool(n, p, t) ==
  LET t1 == typeAnalysis(n.kids[1], Append(p, 0), t)
  IN  IF isBool(nodeType(t1, Append(p, 0)))
      THEN CondCheck(p, AnalyseList(n.body, p, 1, 1, t1))
      ELSE CondCheck(p, t1)

IfStmtNode_typeAnalysis(n, p, t) ==
  LET t1 == typeAnalysis(n.kids[1], Append(p, 0), t)
      t2 == AnalyseList(n.body, p, 1, 1, t1)
  IN  CondCheck(p, t2)

IfElseStmtNode_typeAnalysis(n, p, t) ==
  LET t1 == typeAnalysis(n.kids[1], Append(p, 0), t)
      t2 == AnalyseList(n.body, p, 1, 1, t1)
      t3 == AnalyseList(n.els, p, 2, 1, t2)
  IN  CondCheck(p, t3)

WhileStmtNode_typeAnalysis(n, p, t) ==
  LET t1 == typeAnalysis(n.kids[1], Append(p, 0), t)
      t2 == AnalyseList(n.body, p, 1, 1, t1)
  IN  CondCheck(p, t2)


typeAnalysis(n, p, t) ==
  CASE n.kind = "IntLit" -> IntLitNode_typeAnalysis(n, p, t)
    [] n.kind = "ShortLit" -> ShortLitNode_typeAnalysis(n, p, t)
    [] n.kind = "StrLit" -> StrLitNode_typeAnalysis(n, p, t)
    [] n.kind = "True" -> TrueNode_typeAnalysis(n, p, t)
    [] n.kind = "False" -> FalseNode_typeAnalysis(n, p, t)
    [] n.kind = "ID" -> IDNode_typeAnalysis(n, p, t)
    [] n.kind = "Plus" -> PlusNode_typeAnalysis(n, p, t)
    [] n.kind = "Minus" -> MinusNode_typeAnalysis(n, p, t)
    [] n.kind = "Divide" -> DivideNode_typeAnalysis(n, p, t)
    [] n.kind = "Times" -> TimesNode_typeAnalysis(n, p, t)
    [] n.kind \in LogicKinds -> LogicNode_typeAnalysis(n, p, t)
    [] n.kind \in EqKinds -> EqNode_typeAnalysis(n, p, t)
    [] n.kind \in RelKinds -> RelNode_typeAnalysis(n, p, t)
    [] n.kind \in UnaryKinds \cup AddrKinds -> UnaryNode_typeAnalysis(n, p, t)
    [] n.kind = "AssignExp" -> AssignExpNode_typeAnalysis(n, p, t)
    [] n.kind = "CallExp" -> CallExpNode_typeAnalysis(n, p, t)
    [] n.kind = "VarDecl" -> VarDeclNode_typeAnalysis(n, p, t)
    [] n.kind = "AssignStmt" -> AssignStmtNode_typeAnalysis(n, p, t)
    [] n.kind = "CallStmt" -> CallStmtNode_typeAnalysis(n, p, t)
    [] n.kind = "ReturnStmt" -> ReturnStmtNode_typeAnalysis(n, p, t)
    [] n.kind = "IfStmt" -> IfStmtNode_typeAnalysis(n, p, t)
    [] n.kind = "IfElseStmt" -> IfElseStmtNode_typeAnalysis(n, p, t)
    [] n.kind = "WhileStmt" -> WhileStmtNode_typeAnalysis(n, p, t)

(***************************************************************************)
(* Declarations and the program.                                           *)
(***************************************************************************)
\* The declared signature of a function symbol: the types of its formals
\* in declaration order, and its return type.
formalKinds(s) == getDataType(s).formals

retKind(s) == getDataType(s).ret

RECURSIVE AnalyseFormals(_, _, _, _)
\* formal->typeAnalysis(ta) for formal j on: a formal is a variable declaration.
AnalyseFormals(s, p, j, t) ==
  IF j > Len(formalKinds(s)) THEN t
  ELSE AnalyseFormals(s, p, j + 1,
                      VarDeclNode_typeAnalysis(ID(s), p \o <<1, j>>, t))

\* The FnType object the declaration at p allocates.
functionType(s, p) == FnType(p, formalKinds(s), retKind(s))

\* A function declaration that does not install its signature.
FnDeclNode_enterNoSlot(s, p, t) == AnalyseFormals(s, p, 1, t)

\* FnDeclNode::typeAnalysis up to the loop over the body.
FnDeclNode_enter(s, p, t) ==
  setCurrentFnType(AnalyseFormals(s, p, 1, t), functionType(s, p))

\* FnDeclNode::typeAnalysis after the loop over the body.
FnDeclNode_exit(p, f, t) == nodeTypeSet(t, Append(p, 0), f)

ProgramNode_end(t) == nodeTypeSet(t, <<>>, BasicType("VOID"))

(***************************************************************************)
(* The statements drawn for function bodies.  A statement reads of its     *)
(* expression only the recorded type, so the expressions are one per       *)
(* outcome: INT, BOOL, no type at all, and Error.                          *)
(***************************************************************************)
Stmt(k, ks) == Node(k, "", ks, <<>>, <<>>)

Ctrl(k, c, b, e) == Node(k, "", <<c>>, b, e)

CtrlKinds == {"IfStmt", "IfElseStmt", "WhileStmt"}

StmtExps == {Lit("IntLit"), Lit("True"), Un("Not", Lit("True")), Call("f", <<>>)}

SimpleStmts ==
  {Stmt("AssignStmt", <<Bin("AssignExp", ID("a"), r)>>) : r \in {Lit("IntLit"), Lit("True")}}
  \cup {Stmt("CallStmt", <<Call("f", <<>>)>>)}
  \cup {Stmt("ReturnStmt", <<>>)}
  \cup {Stmt("ReturnStmt", <<e>>) : e \in StmtExps}
  \cup {Node("VarDecl", "a", <<>>, <<>>, <<>>)}

RECURSIVE StmtOfSize(_)
RECURSIVE StmtLists(_)
\* The statements made of exactly n statements, nested ones included.
StmtOfSize(n) ==
  IF n < 1 THEN {}
  ELSE (IF n = 1 THEN SimpleStmts ELSE {})
       \cup {Ctrl(k, c, b, <<>>) : k \in {"IfStmt", "WhileStmt"}, c \in StmtExps,
                                  b \in StmtLists(n - 1)}
       \cup UNION {{Ctrl("IfElseStmt", c, b, e) : c \in StmtExps, b \in StmtLists(i),
                                                 e \in StmtLists(n - 1 - i)} : i \in 0..(n - 1)}

\* The statement lists of m statements in all.
StmtLists(m) ==
  IF m = 0 THEN {<<>>}
  ELSE UNION {{<<s>> \o rest : s \in StmtOfSize(i), rest \in StmtLists(m - i)} : i \in 1..m}

StmtsBySize == [k \in 1..MaxStmts |-> StmtOfSize(k)]

NoNode == Lit("None")

(***************************************************************************)
(* The pass over a program: TypeAnalysis::build calls the handler of the   *)
(* program node, which analyses the globals in order.                      *)
(***************************************************************************)
Init ==
  /\ ast = NoNode
  /\ path = <<>>
  /\ ta = NewTypeAnalysis
  /\ pre = NewTypeAnalysis
  /\ pc = "globals"
  /\ sym = ""
  /\ fn = NoType
  /\ declared = <<>>
  /\ nStmts = 0

Globals == {declared[i] : i \in 1..Len(declared)}

\* ProgramNode::typeAnalysis, a global that is a variable declaration.
GlobalVarDecl ==
  /\ pc = "globals" /\ ta.fault = "none"
  /\ "a" \notin Globals
  /\ ta' = VarDeclNode_typeAnalysis(ID("a"), <<Len(declared) + 1>>, ta)
  /\ declared' = Append(declared, "a")
  /\ UNCHANGED <<ast, path, pre, pc, sym, fn, nStmts>>

\* A global that is a function declaration: up to its body.
FnDeclEnter ==
  /\ pc = "globals" /\ ta.fault = "none"
  /\ \E s \in {"f", "g"} \ Globals :
       /\ sym' = s
       /\ path' = <<Len(declared) + 1>>
       /\ fn' = functionType(s, path')
       /\ ta' = FnDeclNode_enter(s, path', ta)
       /\ declared' = Append(declared, s)
  /\ pre' = ta
  /\ ast' = NoNode
  /\ pc' = "body"
  /\ UNCHANGED nStmts

\* One turn of the loop over the body of the function declaration.
AnalyseStmt(K) ==
  /\ pc = "body" /\ ta.fault = "none"
  /\ \E k \in 1..(MaxStmts - nStmts) : \E s \in StmtsBySize[k] :
       /\ s.kind \in K
       /\ ast' = s
       /\ path' = <<Len(declared), 2, nStmts + 1>>
       /\ ta' = typeAnalysis(s, path', ta)
       /\ nStmts' = nStmts + k
  /\ pre' = ta
  /\ UNCHANGED <<pc, sym, fn, declared>>

VarDeclStmt == AnalyseStmt({"VarDecl"})

AssignStmt == AnalyseStmt({"AssignStmt"})

CallStmt == AnalyseStmt({"CallStmt"})

ReturnStmt == AnalyseStmt({"ReturnStmt"})

IfStmt == AnalyseStmt({"IfStmt"})

IfElseStmt == AnalyseStmt({"IfElseStmt"})

WhileStmt == AnalyseStmt({"WhileStmt"})

\* The end of the function declaration.
FnDeclExit ==
  /\ pc = "body" /\ ta.fault = "none"
  /\ ta' = FnDeclNode_exit(<<Len(declared)>>, fn, ta)
  /\ pc' = "globals"
  /\ sym' = ""
  /\ UNCHANGED <<ast, path, pre, fn, declared, nStmts>>

\* The end of ProgramNode::typeAnalysis.
ProgramNodeEnd ==
  /\ pc = "globals" /\ ta.fault = "none"
  /\ ta' = ProgramNode_end(ta)
  /\ pc' = "analysed"
  /\ UNCHANGED <<ast, path, pre, sym, fn, declared, nStmts>>

\* TypeAnalysis::build returns nullptr or the object.
build ==
  /\ pc = "analysed" /\ ta.fault = "none"
  /\ pc' = IF ta.hasError THEN "nullptr" ELSE "built"
  /\ UNCHANGED <<ast, path, ta, pre, sym, fn, declared, nStmts>>

\* An internal error leaves the pass.
InternalError ==
  /\ pc \in {"globals", "body", "analysed"} /\ ta.fault # "none"
  /\ pc' = "aborted"
  /\ UNCHANGED <<ast, path, ta, pre, sym, fn, declared, nStmts>>

Next ==
  \/ GlobalVarDecl
  \/ FnDeclEnter
  \/ VarDeclStmt
  \/ AssignStmt
  \/ CallStmt
  \/ ReturnStmt
  \/ IfStmt
  \/ IfElseStmt
  \/ WhileStmt
  \/ FnDeclExit
  \/ ProgramNodeEnd
  \/ build
  \/ InternalError

Spec == Init /\ [][Next]_vars

(***************************************************************************)
(* The analysis of one expression, drawn by InitExp, by a fresh object.    *)
(***************************************************************************)
ExpsBySize == [i \in 1..(MaxNodes - 1) |-> ExpOfSize(i)]

InitExp ==
  /\ \/ \E i \in 1..(MaxNodes - 1) : ast \in ExpsBySize[i]
     \/ \E k \in UnaryKinds, e \in ExpsBySize[MaxNodes - 1] : ast = Un(k, e)
     \/ \E i \in 1..(MaxNodes - 2) :
          \E k \in BinaryKinds, l \in ExpsBySize[i], r \in ExpsBySize[MaxNodes - 1 - i] :
            ast = Bin(k, l, r)
     \/ \E l \in LVals, r \in ExpsBySize[MaxNodes - 2] : ast = Bin("AssignExp", l, r)
     \/ \E s \in Symbols, args \in ArgLists(MaxNodes - 2) : ast = Call(s, args)
  /\ path = <<1>>
  /\ ta = NewTypeAnalysis
  /\ pre = NewTypeAnalysis
  /\ pc = "exp"
  /\ sym = ""
  /\ fn = NoType
  /\ declared = <<>>
  /\ nStmts = 0

AnalyseExp ==
  /\ pc = "exp"
  /\ ta' = typeAnalysis(ast, path, ta)
  /\ pc' = "analysed exp"
  /\ UNCHANGED <<ast, path, pre, sym, fn, declared, nStmts>>

NextExp == AnalyseExp

SpecExp == InitExp /\ [][NextExp]_vars

(***************************************************************************)
(* Properties.                                                             *)
(***************************************************************************)
RECURSIVE ExpNodes(_, _)
\* The nodes of an expression tree with their identities.
ExpNodes(n, p) ==
  {[node |-> n, path |-> p]}
  \cup (IF n.kind = "CallExp"
        THEN UNION {ExpNodes(n.kids[j + 1], Append(p, j)) : j \in 0..(Len(n.kids) - 1)}
        ELSE UNION {ExpNodes(n.kids[j], Append(p, j)) : j \in 1..Len(n.kids)})

Bound(t, p) == p \in DOMAIN t.nodeToType

\* The number of diagnostics of kind k reported at position pos.
DiagCount(t, k, pos) ==
  Cardinality({i \in 1..Len(t.diags) : t.diags[i] = [kind |-> k, pos |-> pos]})

\* The number of diagnostics reported at position pos.
DiagsAt(t, pos) == Cardinality({i \in 1..Len(t.diags) : t.diags[i].pos = pos})

HasDiag(t, k) == \E i \in 1..Len(t.diags) : t.diags[i].kind = k

ExpAnalysed == pc = "analysed exp"

\* The call nodes of the analysed expression whose callee has a Function
\* type and whose arguments all have a recorded type.
FnCalls ==
  {x \in ExpNodes(ast, path) :
     /\ x.node.kind = "CallExp"
     /\ Bound(ta, Append(x.path, 0))
     /\ asFn(nodeType(ta, Append(x.path, 0)))
     /\ \A j \in 1..(Len(x.node.kids) - 1) : Bound(ta, Append(x.path, j))}

Formals(x) == nodeType(ta, Append(x.path, 0)).formals

NArgs(x) == Len(x.node.kids) - 1

ArgMatches(x, j) == nodeType(ta, Append(x.path, j)) = BasicType(Formals(x)[j])

ArgsMatch(x) ==
  /\ NArgs(x) = Len(Formals(x))
  /\ \A j \in 1..NArgs(x) : ArgMatches(x, j)

\* C1: a call whose callee is a function and whose arguments equal the
\* formals in number and in type at every position is recorded with the
\* function's declared return type; every other call is recorded as Error.
C1_CallType ==
  ExpAnalysed =>
    \A x \in FnCalls :
      nodeType(ta, x.path) =
        IF ArgsMatch(x)
        THEN getReturnType(nodeType(ta, Append(x.path, 0)))
        ELSE ErrorType

\* C2: a call of a function with the wrong number of arguments reports
\* ArgumentCountMismatch; with the right number it reports one
\* ArgumentTypeMismatch for each position whose type differs from the formal
\* and none for the others; in both failing cases the error flag is set.
C2_CallDiagnostics ==
  ExpAnalysed =>
    \A x \in FnCalls :
      IF NArgs(x) # Len(Formals(x))
      THEN HasDiag(ta, "ArgumentCountMismatch") /\ ta.hasError
      ELSE \A j \in 1..NArgs(x) :
             /\ DiagCount(ta, "ArgumentTypeMismatch", Append(x.path, j)) =
                  IF ArgMatches(x, j) THEN 0 ELSE 1
             /\ ~ArgMatches(x, j) => ta.hasError

\* The operator and assignment nodes of the analysed expression whose
\* operands both have a recorded type.
OperatorNodes(K) ==
  {x \in ExpNodes(ast, path) :
     /\ x.node.kind \in K
     /\ Bound(ta, Append(x.path, 1))
     /\ Bound(ta, Append(x.path, 2))}

Left(x) == nodeType(ta, Append(x.path, 1))

Right(x) == nodeType(ta, Append(x.path, 2))

\* The diagnostics a binary operator reports, at its right operand.
OperandDiags ==
  {"MathOperandMismatch", "EqualityOperandMismatch", "RelationalOperandMismatch"}

\* C4: a binary operator or an assignment with an operand of type Error
\* reports nothing and is recorded as Error, also when both operands are Error.
C4_Suppression ==
  ExpAnalysed =>
    \A x \in OperatorNodes(BinaryKinds \cup {"AssignExp"}) :
      asError(Left(x)) \/ asError(Right(x)) =>
        /\ \A k \in OperandDiags : DiagCount(ta, k, Append(x.path, 2)) = 0
        /\ DiagCount(ta, "AssignmentMismatch", x.path) = 0
        /\ nodeType(ta, x.path) = ErrorType

\* C7: an arithmetic node (+, -, *, /) with two operands that are not Error
\* reports nothing and is recorded with the operand type when both operand
\* types are equal and INT; otherwise it reports exactly one
\* MathOperandMismatch at the right operand and is recorded as Error.
C7_Arithmetic ==
  ExpAnalysed =>
    \A x \in OperatorNodes(ArithKinds) :
      ~asError(Left(x)) /\ ~asError(Right(x)) =>
        IF Left(x) = Right(x) /\ isInt(Left(x))
        THEN /\ DiagsAt(ta, Append(x.path, 2)) = 0
             /\ nodeType(ta, x.path) = Left(x)
             /\ nodeType(ta, x.path) = BasicType("INT")
        ELSE /\ DiagsAt(ta, Append(x.path, 2)) = 1
             /\ DiagCount(ta, "MathOperandMismatch", Append(x.path, 2)) = 1
             /\ nodeType(ta, x.path) = ErrorType

\* `1 * true` was analysed: one MathOperandMismatch at `true`, the node Error.
C7_Witness ==
  /\ ExpAnalysed
  /\ ast = Bin("Times", Lit("IntLit"), Lit("True"))
  /\ ta.diags = <<[kind |-> "MathOperandMismatch", pos |-> Append(path, 2)]>>
  /\ nodeType(ta, path) = ErrorType

\* C8: an assignment with two operands that are not Error is accepted (no
\* diagnostic, recorded with the destination type) exactly when both types
\* are equal and are not both Function types; otherwise it reports exactly
\* one AssignmentMismatch at the assignment and is recorded as Error.
C8_Assignment ==
  ExpAnalysed =>
    \A x \in OperatorNodes({"AssignExp"}) :
      ~asError(Left(x)) /\ ~asError(Right(x)) =>
        IF Left(x) = Right(x) /\ ~(asFn(Left(x)) /\ asFn(Right(x)))
        THEN /\ DiagsAt(ta, x.path) = 0
             /\ nodeType(ta, x.path) = Left(x)
        ELSE /\ DiagCount(ta, "AssignmentMismatch", x.path) = 1
             /\ nodeType(ta, x.path) = ErrorType

(***************************************************************************)
(* Properties of the pass over a program.                                  *)
(***************************************************************************)
\* A statement of the body of the declaration of sym was analysed last.
StmtAnalysed(K) == pc = "body" /\ ast.kind \in K

\* The declared return type of the function being analysed.
DeclaredReturn == BasicType(retKind(sym))

\* C3: a return statement with an expression reports VoidReturnWithValue in
\* a VOID function, and in another function ReturnTypeMismatch exactly when
\* the type of the expression differs from the declared return type, and
\* else records the return type; a return statement without an expression
\* reports MissingReturnValue exactly when the return type is not VOID.
\* Every violation sets the error flag.
C3_Return ==
  StmtAnalysed({"ReturnStmt"}) /\ ta.fault = "none" =>
    IF Len(ast.kids) > 0
    THEN IF isVoid(DeclaredReturn)
         THEN HasDiag(ta, "VoidReturnWithValue") /\ ta.hasError
         ELSE IF nodeType(ta, Append(path, 1)) # DeclaredReturn
              THEN HasDiag(ta, "ReturnTypeMismatch") /\ ta.hasError
              ELSE nodeType(ta, path) = DeclaredReturn /\ ta.diags = pre.diags
    ELSE IF isVoid(DeclaredReturn)
         THEN ta.diags = pre.diags
         ELSE HasDiag(ta, "MissingReturnValue") /\ ta.hasError

\* C5: during a run no node is read before it has a type and no node is
\* recorded a second time, and every expression node the last handler
\* visited has a recorded type.
C5_ExactlyOnce ==
  /\ ta.fault \notin {"unbound", "rebind"}
  /\ pc = "body" /\ ast # NoNode =>
       \A j \in 1..Len(ast.kids) :
         \A x \in ExpNodes(ast.kids[j],
                           Append(path, IF ast.kind \in CtrlKinds THEN 0 ELSE j)) :
           Bound(ta, x.path)

\* C10: when the pass ends with the error flag false, and build returns the
\* object, no node has the type Error.
C10_NoPoisonOnSuccess ==
  pc = "built" => \A p \in DOMAIN ta.nodeToType : ~asError(ta.nodeToType[p])

RECURSIVE HasReturn(_)
\* The statement is, or contains, a return statement.
HasReturn(n) ==
  \/ n.kind = "ReturnStmt"
  \/ \E j \in 1..Len(n.body) : HasReturn(n.body[j])
  \/ \E j \in 1..Len(n.els) : HasReturn(n.els[j])

\* C9: whenever a return statement is checked, the current function slot
\* holds the signature of the declaration that encloses it: the object that
\* declaration allocated, with the formal types in declaration order and the
\* declared return type.
C9_CurrentFunction ==
  pc = "body" /\ ast # NoNode /\ HasReturn(ast) =>
    /\ asFn(getCurrentFnType(pre))
    /\ getCurrentFnType(pre).id = <<Len(declared)>>
    /\ getCurrentFnType(pre).formals = formalKinds(sym)
    /\ getCurrentFnType(pre).ret = retKind(sym)
    /\ getCurrentFnType(ta) = getCurrentFnType(pre)

\* A return statement of g was checked after the sibling f was analysed.
C9_Witness ==
  /\ pc = "body" /\ ast.kind = "ReturnStmt"
  /\ declared = <<"f", "g">>
  /\ getCurrentFnType(pre).ret = "INT"
  /\ Bound(ta, path)

\* The object after the condition and the bodies of a control statement
\* were analysed, before the condition is checked.
BeforeCheck(n, p, t) ==
  AnalyseList(n.els, p, 2, 1,
    AnalyseList(n.body, p, 1, 1, typeAnalysis(n.kids[1], Append(p, 0), t)))

\* The diagnostics reported at positions inside the bodies of the control
\* statement at p.
BodyDiags(t, p) ==
  LET Inside(d) == /\ Len(d.pos) > Len(p) + 1
                   /\ SubSeq(d.pos, 1, Len(p) + 1) \in {Append(p, 1), Append(p, 2)}
  IN  SelectSeq(t.diags, Inside)

====
